---- MODULE Spec2Model ----
(***************************************************************************)
(* A model of src/lib.rs: ShardMap<K, V, T>, a hash map split into a fixed *)
(* vector of shards.  MutableShardMap<K, V> keeps every shard behind a     *)
(* std::sync::Mutex; From<MutableShardMap> moves the tables out of the     *)
(* mutexes into a plain ShardMap<K, V>.                                    *)
(*                                                                         *)
(* Every call of Mutex<HashMap>::{is_empty,len,contains_key,get,insert,    *)
(* remove,clear} is two steps of the calling thread: self.lock().unwrap()  *)
(* with the HashMap call under the guard (one action per method), and the  *)
(* drop of the guard when the method returns (DropGuard).  User code that  *)
(* panics under the guard (Mutex_panic) poisons the mutex of the shard.    *)
(***************************************************************************)
EXTENDS Integers, FiniteSets, Sequences, TLC

\* ---------------------------------------------------------------- bounds
NumThreads == 2
NumKeys == 2
NumVals == 2
MaxHash == 4
MaxParallelism == 1
MaxFairHash == 1
MaxPoisonHash == 2

Threads == 1..NumThreads
Keys == 1..NumKeys
Vals == 1..NumVals
Hashes == 0..MaxHash

\* ------------------------------------------------------- returned values
None == [tag |-> "None", val |-> 0]
Some(v) == [tag |-> "Some", val |-> v]
Bool(b) == [tag |-> "bool", val |-> IF b THEN 1 ELSE 0]
Usize(n) == [tag |-> "usize", val |-> n]
Unit == [tag |-> "unit", val |-> 0]
Panicked == [tag |-> "panic", val |-> 0]
NoRet == [tag |-> "pending", val |-> 0]

\* Result<NonZeroUsize> of std::thread::available_parallelism()
ParallelismErr == [ok |-> FALSE, n |-> 0]
ParallelismOk(p) == [ok |-> TRUE, n |-> p]
AvailableParallelism == {ParallelismErr} \cup {ParallelismOk(p) : p \in 1..MaxParallelism}

\* A call of a ShardMap method with its arguments.
Call(o, k, v) == [op |-> o, key |-> k, val |-> v]
NoCall == Call("none", 0, 0)

\* ------------------------------------------------ std::collections::HashMap
\* A HashMap<K, V> is a function from the set of its keys to their values.
EmptyMap == [x \in {} |-> 0]
HashMap_is_empty(m) == DOMAIN m = {}
HashMap_len(m) == Cardinality(DOMAIN m)
HashMap_contains_key(m, k) == k \in DOMAIN m
HashMap_get(m, k) == IF k \in DOMAIN m THEN Some(m[k]) ELSE None
HashMap_insert(m, k, v) == [x \in DOMAIN m \cup {k} |-> IF x = k THEN v ELSE m[x]]
HashMap_remove(m, k) == [x \in DOMAIN m \ {k} |-> m[x]]

\* ------------------------------------------------------------------ state
VARIABLES
    hash,     \* DefaultHasher: the u64 s.finish() of every key
    DEFAULT_SHARD_AMOUNT,  \* the static OnceLock<usize>; 0 while it is not initialised
    others,   \* shards.len() of the other ShardMaps the process has constructed
    mode,     \* "sync": the MutableShardMap is alive; "plain": it was converted
    mshards,  \* MutableShardMap.shards: Vec<Mutex<HashMap<K, V>>>, indexed from 0
    ishards,  \* ShardMap<K, V>.shards: Vec<HashMap<K, V>> after the conversion
    guards,   \* guards[t]: the shards whose MutexGuard is alive in a frame of t
    pc,       \* where thread t is: idle, lock, unlock, done
    op,       \* the ShardMap method thread t is in (or was last in)
    key,      \* its key argument
    val,      \* its value argument
    idx,      \* the index of the shard it is working on
    acc,      \* len: the running sum; is_empty: 1 while every shard seen was empty
    ret,      \* the value the last call of t returned
    ref,      \* history: one unsharded map given the calls of a single caller
    expect,   \* history: what that map returns for the caller's current call
    cur,      \* history: the single caller's current (or last) call
    prev,     \* history: the call it made before that one
    before,   \* history: the tables of all shards when the current call started
    start,    \* history: start[t], the shards when the call of thread t started
    seen,     \* history: seen[t], the totals the map had during t's len() or is_empty()
    torn      \* history: which results no single state of the map explains, so far

env == <<hash, DEFAULT_SHARD_AMOUNT>>
store == <<mode, mshards, ishards, guards>>
frame == <<pc, op, key, val, idx, acc, ret>>
args == <<op, key, val>>
single == <<ref, expect, cur, prev, before>>
overlap == <<start, seen, torn>>
ghost == <<ref, expect, cur, prev, before, start, seen, torn, others>>
vars == <<hash, DEFAULT_SHARD_AMOUNT, others, mode, mshards, ishards, guards, pc, op, key, val, idx, acc, ret, ref, expect, cur, prev, before, start, seen, torn>>

\* ------------------------------------------------------ shard count, routing
RECURSIVE NextPow(_, _)
NextPow(x, p) == IF p >= x THEN p ELSE NextPow(x, 2 * p)
next_power_of_two(x) == NextPow(x, 1)

\* available_parallelism().map_or(1, usize::from) * 4, rounded up to a power of two
default_shard_amount(a) == next_power_of_two((IF a.ok THEN a.n ELSE 1) * 4)

get_or_init_recomputes(a) == default_shard_amount(a)

\* DEFAULT_SHARD_AMOUNT.get_or_init(|| ..): the closure runs on an empty cell only
get_or_init(a) ==
    IF DEFAULT_SHARD_AMOUNT = 0 THEN default_shard_amount(a) ELSE DEFAULT_SHARD_AMOUNT

\* Mutex::new(HashMap::new()), the Default of a shard
NewMutex == [data |-> EmptyMap, locked |-> FALSE, poisoned |-> FALSE]

\* self.shards.len()
ShardsLen == IF mode = "sync" THEN Cardinality(DOMAIN mshards) ELSE Cardinality(DOMAIN ishards)

\* ShardMap::shard: s.finish() as usize % self.shards.len()
shard(k) == hash[k] % ShardsLen

\* ------------------------------------------------------------------- Init
\* ShardMap::new(), the first of the process, which initialises the cell from
\* one of the answers P of available_parallelism(): default_shard_amount()
\* default shards, no call in flight.
new(P) ==
    /\ \E a \in P : DEFAULT_SHARD_AMOUNT = default_shard_amount(a)
    /\ others = {}
    /\ mode = "sync"
    /\ mshards = [i \in 0..(DEFAULT_SHARD_AMOUNT - 1) |-> NewMutex]
    /\ ishards = EmptyMap
    /\ guards = [t \in Threads |-> {}]
    /\ pc = [t \in Threads |-> "idle"]
    /\ op = [t \in Threads |-> "none"]
    /\ key = [t \in Threads |-> 0]
    /\ val = [t \in Threads |-> 0]
    /\ idx = [t \in Threads |-> 0]
    /\ acc = [t \in Threads |-> 0]
    /\ ret = [t \in Threads |-> NoRet]
    /\ ref = EmptyMap
    /\ expect = NoRet
    /\ cur = NoCall
    /\ prev = NoCall
    /\ before = EmptyMap
    /\ start = [t \in Threads |-> EmptyMap]
    /\ seen = [t \in Threads |-> {}]
    /\ torn = {}

\* Every key has its hash: DefaultHasher::new() has fixed keys.
Init == hash \in [Keys -> Hashes] /\ new(AvailableParallelism)

\* --------------------------------------------------------------- borrowing
\* A thread is inside a call from its first step to the return of the method.
InCall(t) == pc[t] \in {"lock", "unlock"}

\* fn insert(&mut self, ..), fn remove(&mut self, ..): the borrow checker admits
\* the call only while no other borrow of the map is in use.
MutBorrow(t) == \A u \in Threads \ {t} : ~InCall(u)

\* fn f(&self, ..): admitted while no &mut borrow of the map is in use.
SharedBorrow(t) == \A u \in Threads \ {t} : InCall(u) => op[u] \notin {"insert", "remove"}

\* The frame of a call that starts on shard i.
Enter(t, o, k, v, i) ==
    /\ pc' = [pc EXCEPT ![t] = "lock"]
    /\ op' = [op EXCEPT ![t] = o]
    /\ key' = [key EXCEPT ![t] = k]
    /\ val' = [val EXCEPT ![t] = v]
    /\ idx' = [idx EXCEPT ![t] = i]
    /\ acc' = [acc EXCEPT ![t] = 0]
    /\ ret' = [ret EXCEPT ![t] = NoRet]
    /\ UNCHANGED <<env, store>>

\* ------------------------------------------- calls on the MutableShardMap
\* ShardMap::get_cloned(&self, k): self.shards[self.shard(k)].get(k)
get_cloned(t, k) ==
    /\ mode = "sync" /\ ~InCall(t) /\ SharedBorrow(t)
    /\ Enter(t, "get_cloned", k, 0, shard(k))

insert_routes_apart(t, k, v) ==
    /\ mode = "sync" /\ ~InCall(t) /\ MutBorrow(t)
    /\ Enter(t, "insert", k, v, (shard(k) + 1) % ShardsLen)

\* ShardMap::insert(&mut self, k, v): self.shards[self.shard(&k)].insert(k, v)
insert(t, k, v) ==
    /\ mode = "sync" /\ ~InCall(t) /\ MutBorrow(t)
    /\ Enter(t, "insert", k, v, shard(k))

\* ShardMap::remove(&mut self, k): self.shards[self.shard(k)].remove(k)
remove(t, k) ==
    /\ mode = "sync" /\ ~InCall(t) /\ MutBorrow(t)
    /\ Enter(t, "remove", k, 0, shard(k))

\* ShardMap::contains_key(&self, k) on Mutex shards
contains_key(t, k) ==
    /\ mode = "sync" /\ ~InCall(t) /\ SharedBorrow(t)
    /\ Enter(t, "contains_key", k, 0, shard(k))

\* ShardMap::len(&self): the sum of m.len() over self.shards.iter()
len(t) ==
    /\ mode = "sync" /\ ~InCall(t) /\ SharedBorrow(t)
    /\ Enter(t, "len", 0, 0, 0)

\* ShardMap::is_empty(&self): self.shards.iter().all(|m| m.is_empty())
is_empty(t) ==
    /\ mode = "sync" /\ ~InCall(t) /\ SharedBorrow(t)
    /\ Enter(t, "is_empty", 0, 0, 0)

\* ShardMap::clear(&self): for shard in &self.shards { shard.clear() }
clear(t) ==
    /\ mode = "sync" /\ ~InCall(t) /\ SharedBorrow(t)
    /\ Enter(t, "clear", 0, 0, 0)

\* ------------------------------------ impl ... for Mutex<HashMap<K, V>>
CanLock_never_blocks(i) == TRUE

\* Mutex::lock blocks while another guard of the mutex is alive.
CanLock(i) == ~mshards[i].locked

Unwind_restores(t) ==
    /\ mshards' = [i \in DOMAIN mshards |-> [mshards[i] EXCEPT !.data = start[t][i].data]]
    /\ guards' = [guards EXCEPT ![t] = {}]
    /\ pc' = [pc EXCEPT ![t] = "done"]
    /\ ret' = [ret EXCEPT ![t] = Panicked]
    /\ key' = [key EXCEPT ![t] = 0]
    /\ val' = [val EXCEPT ![t] = 0]
    /\ idx' = [idx EXCEPT ![t] = 0]
    /\ acc' = [acc EXCEPT ![t] = 0]

\* A panic unwinds the frames of t: every guard alive in them is dropped while
\* the thread is panicking, which unlocks its mutex and poisons it.
Unwind(t) ==
    /\ mshards' = [i \in DOMAIN mshards |->
                      IF i \in guards[t]
                      THEN [mshards[i] EXCEPT !.locked = FALSE, !.poisoned = TRUE]
                      ELSE mshards[i]]
    /\ guards' = [guards EXCEPT ![t] = {}]
    /\ pc' = [pc EXCEPT ![t] = "done"]
    /\ ret' = [ret EXCEPT ![t] = Panicked]
    /\ key' = [key EXCEPT ![t] = 0]
    /\ val' = [val EXCEPT ![t] = 0]
    /\ idx' = [idx EXCEPT ![t] = 0]
    /\ acc' = [acc EXCEPT ![t] = 0]

\* The Mutex<HashMap> method thread t is in: the one its ShardMap method calls
\* on a shard, or the one it called on the shard itself.
Method(t) ==
    CASE op[t] \in {"get_cloned", "Mutex::get"} -> "get"
      [] op[t] \in {"insert", "Mutex::insert"} -> "insert"
      [] op[t] \in {"remove", "Mutex::remove"} -> "remove"
      [] op[t] \in {"contains_key", "Mutex::contains_key"} -> "contains_key"
      [] op[t] \in {"len", "Mutex::len"} -> "len"
      [] op[t] \in {"is_empty", "Mutex::is_empty"} -> "is_empty"
      [] op[t] \in {"clear", "Mutex::clear"} -> "clear"
      [] OTHER -> "none"

\* The table behind the mutex thread t is calling.
Map(t) == mshards[idx[t]].data

Locked_ignores_poison(t, o, m, a, r) ==
    /\ pc[t] = "lock" /\ Method(t) = o
    /\ CanLock(idx[t])
    /\ mshards' = [mshards EXCEPT ![idx[t]] = [@ EXCEPT !.locked = TRUE, !.data = m]]
    /\ guards' = [guards EXCEPT ![t] = @ \cup {idx[t]}]
    /\ pc' = [pc EXCEPT ![t] = "unlock"]
    /\ acc' = [acc EXCEPT ![t] = a]
    /\ ret' = [ret EXCEPT ![t] = r]
    /\ UNCHANGED <<key, val, idx>>
    /\ UNCHANGED <<env, mode, ishards, op>>

\* let map = self.lock().unwrap(), the first line of all seven methods, and the
\* HashMap call under the guard, which leaves table m, accumulator a and return
\* value r.  Only the holder of the guard can reach the table, so the two are
\* one step.  A poisoned mutex answers Err, and unwrap panics.
Locked(t, o, m, a, r) ==
    /\ pc[t] = "lock" /\ Method(t) = o
    /\ CanLock(idx[t])
    /\ IF mshards[idx[t]].poisoned
       THEN Unwind(t)
       ELSE /\ mshards' = [mshards EXCEPT ![idx[t]] = [@ EXCEPT !.locked = TRUE, !.data = m]]
            /\ guards' = [guards EXCEPT ![t] = @ \cup {idx[t]}]
            /\ pc' = [pc EXCEPT ![t] = "unlock"]
            /\ acc' = [acc EXCEPT ![t] = a]
            /\ ret' = [ret EXCEPT ![t] = r]
            /\ UNCHANGED <<key, val, idx>>
    /\ UNCHANGED <<env, mode, ishards, op>>

\* InnerMap::is_empty: map.is_empty()
Mutex_is_empty(t) ==
    Locked(t, "is_empty", Map(t), IF HashMap_is_empty(Map(t)) THEN 1 ELSE 0, ret[t])

Mutex_len_overwrites(t) ==
    Locked(t, "len", Map(t), HashMap_len(Map(t)), ret[t])

\* InnerMap::len: map.len(), added to the sum of ShardMap::len
Mutex_len(t) ==
    Locked(t, "len", Map(t), acc[t] + HashMap_len(Map(t)), ret[t])

\* InnerMap::contains_key: map.contains_key(k)
Mutex_contains_key(t) ==
    Locked(t, "contains_key", Map(t), acc[t], Bool(HashMap_contains_key(Map(t), key[t])))

Mutex_get_takes(t) ==
    Locked(t, "get", HashMap_remove(Map(t), key[t]), acc[t], HashMap_get(Map(t), key[t]))

\* MutableInnerMap::get: map.get(k).cloned()
Mutex_get(t) ==
    Locked(t, "get", Map(t), acc[t], HashMap_get(Map(t), key[t]))

Mutex_insert_returns_new(t) ==
    Locked(t, "insert", HashMap_insert(Map(t), key[t], val[t]), acc[t], Some(val[t]))

\* MutableInnerMap::insert: map.insert(k, v), which returns the old value
Mutex_insert(t) ==
    Locked(t, "insert", HashMap_insert(Map(t), key[t], val[t]), acc[t], HashMap_get(Map(t), key[t]))

Mutex_remove_drains(t) ==
    Locked(t, "remove", EmptyMap, acc[t], HashMap_get(Map(t), key[t]))

\* MutableInnerMap::remove: map.remove(k), which returns the removed value
Mutex_remove(t) ==
    Locked(t, "remove", HashMap_remove(Map(t), key[t]), acc[t], HashMap_get(Map(t), key[t]))

Mutex_clear_keeps(t) ==
    Locked(t, "clear", Map(t), acc[t], ret[t])

\* MutableInnerMap::clear: map.clear()
Mutex_clear(t) ==
    Locked(t, "clear", EmptyMap, acc[t], ret[t])

\* K::hash, K::eq or V::clone, which map.get(k).cloned(), map.insert(k, v),
\* map.remove(k) and map.contains_key(k) call, panics under the guard before
\* the table is changed: the unwinding drops the guard, which unlocks the mutex
\* and poisons it, and the call does not return.
Mutex_panic(t) ==
    /\ pc[t] = "lock" /\ Method(t) \in {"get", "insert", "remove", "contains_key"}
    /\ CanLock(idx[t]) /\ ~mshards[idx[t]].poisoned
    /\ mshards' = [mshards EXCEPT ![idx[t]].poisoned = TRUE]
    /\ pc' = [pc EXCEPT ![t] = "done"]
    /\ ret' = [ret EXCEPT ![t] = Panicked]
    /\ key' = [key EXCEPT ![t] = 0]
    /\ val' = [val EXCEPT ![t] = 0]
    /\ idx' = [idx EXCEPT ![t] = 0]
    /\ acc' = [acc EXCEPT ![t] = 0]
    /\ UNCHANGED <<env, mode, ishards, guards, op>>

More_skips_last(t) ==
    CASE op[t] = "len" -> idx[t] + 1 < ShardsLen
      [] op[t] = "clear" -> idx[t] + 2 < ShardsLen
      [] op[t] = "is_empty" -> acc[t] = 1 /\ idx[t] + 1 < ShardsLen
      [] OTHER -> FALSE

\* Whether the loop of the ShardMap method goes on to the next shard:
\* sum() and the for loop visit every shard, all() stops at the first false.
More(t) ==
    CASE op[t] = "len" -> idx[t] + 1 < ShardsLen
      [] op[t] = "clear" -> idx[t] + 1 < ShardsLen
      [] op[t] = "is_empty" -> acc[t] = 1 /\ idx[t] + 1 < ShardsLen
      [] OTHER -> FALSE

\* What the method returns once its (last) shard call has returned.
Result(t) ==
    CASE Method(t) = "len" -> Usize(acc[t])
      [] Method(t) = "clear" -> Unit
      [] Method(t) = "is_empty" -> Bool(acc[t] = 1)
      [] OTHER -> ret[t]

\* What the return of the method leaves in the frame of thread t.
Return(t) ==
    /\ pc' = [pc EXCEPT ![t] = "done"]
    /\ ret' = [ret EXCEPT ![t] = Result(t)]
    /\ key' = [key EXCEPT ![t] = 0]
    /\ val' = [val EXCEPT ![t] = 0]
    /\ idx' = [idx EXCEPT ![t] = 0]
    /\ acc' = [acc EXCEPT ![t] = 0]

\* The ShardMap method calls the next shard.
NextShardCall(t) ==
    /\ idx' = [idx EXCEPT ![t] = @ + 1]
    /\ pc' = [pc EXCEPT ![t] = "lock"]
    /\ UNCHANGED <<key, val, acc, ret>>

DropGuard_late(t) ==
    /\ pc[t] = "unlock"
    /\ IF More(t)
       THEN /\ UNCHANGED <<mshards, guards>>
            /\ NextShardCall(t)
       ELSE /\ mshards' = [i \in DOMAIN mshards |->
                              IF i \in guards[t]
                              THEN [mshards[i] EXCEPT !.locked = FALSE]
                              ELSE mshards[i]]
            /\ guards' = [guards EXCEPT ![t] = {}]
            /\ Return(t)
    /\ UNCHANGED <<env, mode, ishards, op>>

DropGuard_leaks(t) ==
    /\ pc[t] = "unlock"
    /\ UNCHANGED mshards
    /\ guards' = [guards EXCEPT ![t] = @ \ {idx[t]}]
    /\ IF More(t) THEN NextShardCall(t) ELSE Return(t)
    /\ UNCHANGED <<env, mode, ishards, op>>

\* The guard goes out of scope at the end of the Mutex<HashMap> method; the
\* ShardMap method then calls the next shard or returns.
DropGuard(t) ==
    /\ pc[t] = "unlock"
    /\ mshards' = [mshards EXCEPT ![idx[t]].locked = FALSE]
    /\ guards' = [guards EXCEPT ![t] = @ \ {idx[t]}]
    /\ IF More(t) THEN NextShardCall(t) ELSE Return(t)
    /\ UNCHANGED <<env, mode, ishards, op>>

\* ---------------------------------- From<MutableShardMap<K, V>> for ShardMap
\* The argument of from is moved in, so no borrow of the map is alive.  Every
\* v.into_inner().unwrap() answers the table of its mutex, or panics on a
\* poisoned one, which drops the map and what was collected; collect() makes
\* the tables the shards of the new map.
Convert(t, tables) ==
    /\ mode = "sync"
    /\ \A u \in Threads : ~InCall(u)
    /\ IF \E i \in DOMAIN mshards : mshards[i].poisoned
       THEN /\ mode' = "dropped"
            /\ ishards' = ishards
            /\ ret' = [ret EXCEPT ![t] = Panicked]
       ELSE /\ mode' = "plain"
            /\ ishards' = tables
            /\ ret' = [ret EXCEPT ![t] = Unit]
    /\ mshards' = EmptyMap
    /\ pc' = [pc EXCEPT ![t] = "done"]
    /\ op' = [op EXCEPT ![t] = "from"]
    /\ UNCHANGED <<env, guards, key, val, idx, acc>>

from_keeps_converted(t) ==
    /\ mode = "sync"
    /\ \A u \in Threads : ~InCall(u)
    /\ mode' = "plain"
    /\ ishards' = [i \in {j \in DOMAIN mshards : \A l \in 0..j : ~mshards[l].poisoned} |->
                       mshards[i].data]
    /\ ret' = [ret EXCEPT ![t] =
                   IF \E i \in DOMAIN mshards : mshards[i].poisoned THEN Panicked ELSE Unit]
    /\ mshards' = EmptyMap
    /\ pc' = [pc EXCEPT ![t] = "done"]
    /\ op' = [op EXCEPT ![t] = "from"]
    /\ UNCHANGED <<env, guards, key, val, idx, acc>>

from_reversed(t) ==
    Convert(t, [i \in DOMAIN mshards |-> mshards[Cardinality(DOMAIN mshards) - 1 - i].data])

\* from(from): from.shards.into_iter().map(|v| v.into_inner().unwrap()).collect()
from(t) ==
    Convert(t, [i \in DOMAIN mshards |-> mshards[i].data])

\* ----------------------------------------- calls on the plain ShardMap<K, V>
\* A call on HashMap shards takes no lock and changes nothing: one step.
Plain(t, o, r) ==
    /\ mode = "plain" /\ ~InCall(t)
    /\ pc' = [pc EXCEPT ![t] = "done"]
    /\ op' = [op EXCEPT ![t] = o]
    /\ ret' = [ret EXCEPT ![t] = r]
    /\ UNCHANGED <<env, store, key, val, idx, acc>>

RECURSIVE SumLen(_, _)
\* self.shards.iter().map(|m| m.len()).sum() over the first n shards
SumLen(s, n) == IF n = 0 THEN 0 ELSE SumLen(s, n - 1) + HashMap_len(s[n - 1])

\* ShardMap::get(&self, k) -> Option<&V>
plain_get(t, k) == Plain(t, "get", HashMap_get(ishards[shard(k)], k))

\* ShardMap::contains_key(&self, k) on HashMap shards
plain_contains_key(t, k) ==
    Plain(t, "contains_key", Bool(HashMap_contains_key(ishards[shard(k)], k)))

\* ShardMap::len(&self) on HashMap shards
plain_len(t) == Plain(t, "len", Usize(SumLen(ishards, ShardsLen)))

\* ShardMap::is_empty(&self) on HashMap shards
plain_is_empty(t) ==
    Plain(t, "is_empty", Bool(\A i \in DOMAIN ishards : HashMap_is_empty(ishards[i])))

\* --------------------------------------------------------- specifications
\* Threads sharing the map call its methods in any interleaving.
Next ==
    \/ \E t \in Threads, k \in Keys : get_cloned(t, k) /\ UNCHANGED ghost
    \/ \E t \in Threads, k \in Keys, v \in Vals : insert(t, k, v) /\ UNCHANGED ghost
    \/ \E t \in Threads, k \in Keys : remove(t, k) /\ UNCHANGED ghost
    \/ \E t \in Threads, k \in Keys : contains_key(t, k) /\ UNCHANGED ghost
    \/ \E t \in Threads : len(t) /\ UNCHANGED ghost
    \/ \E t \in Threads : is_empty(t) /\ UNCHANGED ghost
    \/ \E t \in Threads : clear(t) /\ UNCHANGED ghost
    \/ \E t \in Threads : Mutex_is_empty(t) /\ UNCHANGED ghost
    \/ \E t \in Threads : Mutex_len(t) /\ UNCHANGED ghost
    \/ \E t \in Threads : Mutex_contains_key(t) /\ UNCHANGED ghost
    \/ \E t \in Threads : Mutex_get(t) /\ UNCHANGED ghost
    \/ \E t \in Threads : Mutex_insert(t) /\ UNCHANGED ghost
    \/ \E t \in Threads : Mutex_remove(t) /\ UNCHANGED ghost
    \/ \E t \in Threads : Mutex_clear(t) /\ UNCHANGED ghost
    \/ \E t \in Threads : DropGuard(t) /\ UNCHANGED ghost
    \/ \E t \in Threads : from(t) /\ UNCHANGED ghost
    \/ \E t \in Threads, k \in Keys : plain_get(t, k) /\ UNCHANGED ghost
    \/ \E t \in Threads, k \in Keys : plain_contains_key(t, k) /\ UNCHANGED ghost
    \/ \E t \in Threads : plain_len(t) /\ UNCHANGED ghost
    \/ \E t \in Threads : plain_is_empty(t) /\ UNCHANGED ghost

Spec == Init /\ [][Next]_vars

\* The step of thread t that takes a lock, and the one that gives it back.
Acquire(t) ==
    /\ UNCHANGED ghost
    /\ \/ Mutex_is_empty(t)
       \/ Mutex_len(t)
       \/ Mutex_contains_key(t)
       \/ Mutex_get(t)
       \/ Mutex_insert(t)
       \/ Mutex_remove(t)
       \/ Mutex_clear(t)

Release(t) == DropGuard(t) /\ UNCHANGED ghost

\* Fair lock scheduling: a thread that can take the lock it waits for again and
\* again does take it, and a running thread reaches the end of its method.
Fairness == \A t \in Threads : SF_vars(Acquire(t)) /\ WF_vars(Release(t))

\* The progress of calls does not depend on the value of a hash beyond which
\* keys share a shard: the fair specification draws the hashes from 0..MaxFairHash.
InitFair == Init /\ hash \in [Keys -> 0..MaxFairHash]

SpecFair == InitFair /\ [][Next]_vars /\ Fairness

\* -------------------------------- a Mutex<HashMap<K, V>> shared by reference
\* InnerMap and MutableInnerMap are public traits and all their methods take
\* &self: threads holding a reference to one Mutex<HashMap<K, V>> (here the
\* first shard) call them on it in any interleaving.
Mutex_call(t, o, k, v) ==
    /\ mode = "sync" /\ ~InCall(t)
    /\ Enter(t, o, k, v, 0)

InitShard == Init /\ hash = [k \in Keys |-> 0]

NextShard ==
    \/ \E t \in Threads, k \in Keys : Mutex_call(t, "Mutex::get", k, 0) /\ UNCHANGED ghost
    \/ \E t \in Threads, k \in Keys, v \in Vals : Mutex_call(t, "Mutex::insert", k, v) /\ UNCHANGED ghost
    \/ \E t \in Threads, k \in Keys : Mutex_call(t, "Mutex::remove", k, 0) /\ UNCHANGED ghost
    \/ \E t \in Threads, k \in Keys : Mutex_call(t, "Mutex::contains_key", k, 0) /\ UNCHANGED ghost
    \/ \E t \in Threads : Mutex_call(t, "Mutex::len", 0, 0) /\ UNCHANGED ghost
    \/ \E t \in Threads : Mutex_call(t, "Mutex::is_empty", 0, 0) /\ UNCHANGED ghost
    \/ \E t \in Threads : Mutex_call(t, "Mutex::clear", 0, 0) /\ UNCHANGED ghost
    \/ \E t \in Threads : Mutex_is_empty(t) /\ UNCHANGED ghost
    \/ \E t \in Threads : Mutex_len(t) /\ UNCHANGED ghost
    \/ \E t \in Threads : Mutex_contains_key(t) /\ UNCHANGED ghost
    \/ \E t \in Threads : Mutex_get(t) /\ UNCHANGED ghost
    \/ \E t \in Threads : Mutex_insert(t) /\ UNCHANGED ghost
    \/ \E t \in Threads : Mutex_remove(t) /\ UNCHANGED ghost
    \/ \E t \in Threads : Mutex_clear(t) /\ UNCHANGED ghost
    \/ \E t \in Threads : DropGuard(t) /\ UNCHANGED ghost

SpecShard == InitShard /\ [][NextShard]_vars

\* The reference map of a single caller: one function from keys to values.
RefMap(r, o, k, v) ==
    CASE o = "insert" -> [x \in DOMAIN r \cup {k} |-> IF x = k THEN v ELSE r[x]]
      [] o = "remove" -> [x \in DOMAIN r \ {k} |-> r[x]]
      [] o = "clear" -> EmptyMap
      [] OTHER -> r

RefRet(r, o, k) ==
    CASE o \in {"get_cloned", "get", "insert", "remove"} ->
             IF k \in DOMAIN r THEN Some(r[k]) ELSE None
      [] o = "contains_key" -> Bool(k \in DOMAIN r)
      [] o = "len" -> Usize(Cardinality(DOMAIN r))
      [] o = "is_empty" -> Bool(DOMAIN r = {})
      [] OTHER -> Unit

\* The tables of the shards, by index.
Tables ==
    IF mode = "sync" THEN [i \in DOMAIN mshards |-> mshards[i].data] ELSE ishards

\* The caller gives the reference map the call it gives the ShardMap, and the
\* history keeps the call, the one before it and the tables it started from.
Same(o, k, v) ==
    /\ ref' = RefMap(ref, o, k, v)
    /\ expect' = RefRet(ref, o, k)
    /\ cur' = Call(o, k, v)
    /\ prev' = cur
    /\ before' = Tables
    /\ UNCHANGED <<overlap, others>>

Caller == CHOOSE t \in Threads : \A u \in Threads : t <= u

\* A single caller: every call returns before the next one starts.
NextSeq ==
    \/ \E k \in Keys : get_cloned(Caller, k) /\ Same("get_cloned", k, 0)
    \/ \E k \in Keys, v \in Vals : insert(Caller, k, v) /\ Same("insert", k, v)
    \/ \E k \in Keys : remove(Caller, k) /\ Same("remove", k, 0)
    \/ \E k \in Keys : contains_key(Caller, k) /\ Same("contains_key", k, 0)
    \/ len(Caller) /\ Same("len", 0, 0)
    \/ is_empty(Caller) /\ Same("is_empty", 0, 0)
    \/ clear(Caller) /\ Same("clear", 0, 0)
    \/ Mutex_is_empty(Caller) /\ UNCHANGED ghost
    \/ Mutex_len(Caller) /\ UNCHANGED ghost
    \/ Mutex_contains_key(Caller) /\ UNCHANGED ghost
    \/ Mutex_get(Caller) /\ UNCHANGED ghost
    \/ Mutex_insert(Caller) /\ UNCHANGED ghost
    \/ Mutex_remove(Caller) /\ UNCHANGED ghost
    \/ Mutex_clear(Caller) /\ UNCHANGED ghost
    \/ DropGuard(Caller) /\ UNCHANGED ghost
    \/ from(Caller) /\ Same("from", 0, 0)
    \/ \E k \in Keys : plain_get(Caller, k) /\ Same("get", k, 0)
    \/ \E k \in Keys : plain_contains_key(Caller, k) /\ Same("contains_key", k, 0)
    \/ plain_len(Caller) /\ Same("len", 0, 0)
    \/ plain_is_empty(Caller) /\ Same("is_empty", 0, 0)

SpecSeq == Init /\ [][NextSeq]_vars

\* The shards as a call finds them: their tables and which are poisoned.
Snapshot == [i \in DOMAIN mshards |-> [mshards[i] EXCEPT !.locked = FALSE]]

\* ----------------------------------- aggregate calls that overlap a clear()
\* A len() whose result is no total needs two shards of different sizes, hence
\* three keys; the values stored do not matter to len() and is_empty().
AggKeys == 1..(NumKeys + 1)
AggVals == {NumVals}

\* The number of entries of the whole map given the tables of its shards.
Total(tables) == SumLen(tables, Cardinality(DOMAIN tables))

\* Thread t is inside is_empty() and has just found a shard that holds entries,
\* having found empty a shard that held entries when the clear() of thread u,
\* which has not returned, started.
PartialClear(t, u) ==
    /\ op[t] = "is_empty" /\ pc[t] = "unlock" /\ acc[t] = 0
    /\ op[u] = "clear" /\ InCall(u)
    /\ \E i \in 0..(idx[t] - 1) : start[u][i].data # EmptyMap

\* The len() of thread t returned a number the map's total was at no time
\* between the call and the return.
NoSnapshot(t) ==
    /\ op[t] = "len" /\ pc[t] = "done" /\ ret[t].tag = "usize"
    /\ ret[t].val \notin seen[t]

\* The history of a step: the shards at the start of a clear(), the totals
\* during a len() or is_empty(), and the results no single state explains.
Watch ==
    /\ start' = [t \in Threads |->
                    IF pc[t] \in {"idle", "done"} /\ pc'[t] = "lock"
                    THEN (IF op'[t] = "clear" THEN Snapshot ELSE EmptyMap)
                    ELSE start[t]]
    /\ seen' = [t \in Threads |->
                   IF pc[t] \in {"idle", "done"} /\ pc'[t] = "lock"
                   THEN (IF op'[t] \in {"len", "is_empty"} THEN {Total(Tables)} ELSE {})
                   ELSE IF InCall(t) /\ op[t] \in {"len", "is_empty"}
                        THEN seen[t] \cup {Total([i \in DOMAIN mshards' |-> mshards'[i].data])}
                        ELSE seen[t]]
    /\ torn' = torn \cup {"clear" : x \in {y \in {0} : \E t, u \in Threads : PartialClear(t, u)'}}
                    \cup {"len" : x \in {y \in {0} : \E t \in Threads : NoSnapshot(t)'}}
    /\ UNCHANGED <<single, others>>

InitAgg == hash \in [AggKeys -> 0..MaxFairHash] /\ new(AvailableParallelism)

\* Threads fill the map, one at a time, and call clear(), len() and is_empty()
\* on it in any interleaving.
NextAgg ==
    \/ \E t \in Threads, k \in AggKeys, v \in AggVals : insert(t, k, v) /\ Watch
    \/ \E t \in Threads : len(t) /\ Watch
    \/ \E t \in Threads : is_empty(t) /\ Watch
    \/ \E t \in Threads : clear(t) /\ Watch
    \/ \E t \in Threads : Mutex_is_empty(t) /\ Watch
    \/ \E t \in Threads : Mutex_len(t) /\ Watch
    \/ \E t \in Threads : Mutex_insert(t) /\ Watch
    \/ \E t \in Threads : Mutex_clear(t) /\ Watch
    \/ \E t \in Threads : DropGuard(t) /\ Watch

SpecAgg == InitAgg /\ [][NextAgg]_vars

\* ------------------------------------------------------- poisoned shards
\* Hashes up to MaxPoisonHash put three shards in use: one to poison, one
\* before it and one after it.
\* The caller's call, the one before it and the shards it starts from.
Note(o, k, v) ==
    /\ cur' = Call(o, k, v)
    /\ prev' = cur
    /\ start' = [start EXCEPT ![Caller] = Snapshot]
    /\ UNCHANGED <<ref, expect, before, seen, torn, others>>

InitPoison == hash \in [AggKeys -> 0..MaxPoisonHash] /\ new(AvailableParallelism)

\* A caller whose calls may panic under the guard of a shard, and which goes
\* on using the map after a panic (another thread, or catch_unwind).
NextPoison ==
    \/ \E k \in AggKeys : get_cloned(Caller, k) /\ Note("get_cloned", k, 0)
    \/ \E k \in AggKeys, v \in AggVals : insert(Caller, k, v) /\ Note("insert", k, v)
    \/ \E k \in AggKeys : remove(Caller, k) /\ Note("remove", k, 0)
    \/ \E k \in AggKeys : contains_key(Caller, k) /\ Note("contains_key", k, 0)
    \/ len(Caller) /\ Note("len", 0, 0)
    \/ is_empty(Caller) /\ Note("is_empty", 0, 0)
    \/ clear(Caller) /\ Note("clear", 0, 0)
    \/ Mutex_is_empty(Caller) /\ UNCHANGED ghost
    \/ Mutex_len(Caller) /\ UNCHANGED ghost
    \/ Mutex_contains_key(Caller) /\ UNCHANGED ghost
    \/ Mutex_get(Caller) /\ UNCHANGED ghost
    \/ Mutex_insert(Caller) /\ UNCHANGED ghost
    \/ Mutex_remove(Caller) /\ UNCHANGED ghost
    \/ Mutex_clear(Caller) /\ UNCHANGED ghost
    \/ Mutex_panic(Caller) /\ UNCHANGED ghost
    \/ DropGuard(Caller) /\ UNCHANGED ghost
    \/ from(Caller) /\ Note("from", 0, 0)

SpecPoison == InitPoison /\ [][NextPoison]_vars

\* ------------------------------------------------ more maps in one process
\* What available_parallelism() may answer over the life of a process.
AnyParallelism == {ParallelismErr} \cup {ParallelismOk(p) : p \in 1..(MaxParallelism + 1)}

\* ShardMap::new() once more, while available_parallelism() answers a:
\* default_shard_amount() reads the cell, and the new map gets that many shards.
new_again(t, a) ==
    /\ ~InCall(t)
    /\ DEFAULT_SHARD_AMOUNT' = get_or_init(a)
    /\ others' = others \cup {DEFAULT_SHARD_AMOUNT'}
    /\ UNCHANGED <<hash, store, frame, single, overlap>>

InitNew == hash \in [Keys -> Hashes] /\ new(AnyParallelism)

\* A caller that uses the map, converts it, and constructs other maps.
NextNew ==
    \/ \E k \in Keys : get_cloned(Caller, k) /\ UNCHANGED ghost
    \/ \E k \in Keys, v \in Vals : insert(Caller, k, v) /\ UNCHANGED ghost
    \/ \E k \in Keys : remove(Caller, k) /\ UNCHANGED ghost
    \/ \E k \in Keys : contains_key(Caller, k) /\ UNCHANGED ghost
    \/ len(Caller) /\ UNCHANGED ghost
    \/ is_empty(Caller) /\ UNCHANGED ghost
    \/ clear(Caller) /\ UNCHANGED ghost
    \/ Mutex_is_empty(Caller) /\ UNCHANGED ghost
    \/ Mutex_len(Caller) /\ UNCHANGED ghost
    \/ Mutex_contains_key(Caller) /\ UNCHANGED ghost
    \/ Mutex_get(Caller) /\ UNCHANGED ghost
    \/ Mutex_insert(Caller) /\ UNCHANGED ghost
    \/ Mutex_remove(Caller) /\ UNCHANGED ghost
    \/ Mutex_clear(Caller) /\ UNCHANGED ghost
    \/ DropGuard(Caller) /\ UNCHANGED ghost
    \/ from(Caller) /\ UNCHANGED ghost
    \/ \E k \in Keys : plain_get(Caller, k) /\ UNCHANGED ghost
    \/ \E k \in Keys : plain_contains_key(Caller, k) /\ UNCHANGED ghost
    \/ plain_len(Caller) /\ UNCHANGED ghost
    \/ plain_is_empty(Caller) /\ UNCHANGED ghost
    \/ \E a \in AnyParallelism : new_again(Caller, a)

SpecNew == InitNew /\ [][NextNew]_vars

\* ------------------------------------------------- a single caller's calls
\* The caller's call of method o has returned.
Returned(o) == pc[Caller] = "done" /\ cur.op = o

\* The keys held by any shard.
StoredKeys == UNION {DOMAIN Tables[i] : i \in DOMAIN Tables}

\* What was stored under k, in whichever shard, when the current call started.
StoredBefore(k) ==
    IF \E i \in DOMAIN before : k \in DOMAIN before[i]
    THEN Some(before[CHOOSE i \in DOMAIN before : k \in DOMAIN before[i]][k])
    ELSE None

\* Every shard's table is empty.
AllEmpty == \A i \in DOMAIN Tables : Tables[i] = EmptyMap

\* C1: for a single caller, every value returned by insert, remove, clear,
\* get_cloned, contains_key, len and is_empty on a MutableShardMap that starts
\* empty is the value the unsharded reference map returns for the same sequence
\* of calls, for every hash function and every shard count new() can choose.
C1_Refinement ==
    (mode = "sync" /\ pc[Caller] = "done") => ret[Caller] = expect

\* C1 witness: remove(k) returned Some(2) for a key whose hash is reduced modulo
\* the shard count, and another key is still stored.
C1_Witness ==
    /\ mode = "sync" /\ Returned("remove") /\ ret[Caller] = Some(2)
    /\ hash[cur.key] >= ShardsLen
    /\ StoredKeys # {}

\* C2: insert(k, v) returns Some(old) when k was stored and None when it was
\* not; a get_cloned(k) that follows it returns Some(v); a second insert(k, v2)
\* after insert(k, v1) returns Some(v1).
C2_InsertReturnsOld ==
    /\ Returned("insert") => ret[Caller] = StoredBefore(cur.key)
    /\ (Returned("get_cloned") /\ prev.op = "insert" /\ prev.key = cur.key)
           => ret[Caller] = Some(prev.val)
    /\ (Returned("insert") /\ prev.op = "insert" /\ prev.key = cur.key)
           => ret[Caller] = Some(prev.val)

\* C2 witness: insert(k, v2) right after insert(k, v1), v1 # v2, returned Some(v1).
C2_Witness ==
    /\ Returned("insert") /\ prev.op = "insert" /\ prev.key = cur.key
    /\ prev.val # cur.val /\ ret[Caller] = Some(prev.val)

\* C3: with a single caller len() is the number of distinct keys stored, which
\* is the sum of the shards' sizes and the number of keys inserted and not
\* removed since; is_empty() is true exactly when that number is 0; the new map
\* is empty.
C3_Cardinality ==
    /\ Returned("len") =>
           /\ ret[Caller] = Usize(Cardinality(StoredKeys))
           /\ ret[Caller] = Usize(SumLen(Tables, ShardsLen))
           /\ ret[Caller] = Usize(Cardinality(DOMAIN ref))
    /\ Returned("is_empty") =>
           /\ ret[Caller] = Bool(StoredKeys = {})
           /\ ret[Caller] = Bool(DOMAIN ref = {})
    /\ cur = NoCall => AllEmpty

\* C3 witness: len() returned 2 right after the insert of a second key, the two
\* keys being held by two different shards.
C3_Witness ==
    /\ mode = "sync" /\ Returned("len") /\ ret[Caller] = Usize(2) /\ prev.op = "insert"
    /\ \E i, j \in DOMAIN mshards :
           i # j /\ mshards[i].data # EmptyMap /\ mshards[j].data # EmptyMap

\* C4: the conversion of a MutableShardMap with no poisoned shard keeps the
\* contents: the tables are the same, index by index, so len() is the same, and
\* every get, contains_key, len and is_empty on the plain map returns what the
\* reference map, fed the calls made before the conversion, returns: a reference
\* to the value get_cloned returned, and nothing for a key removed before.
C4_Conversion ==
    /\ (Returned("from") /\ ret[Caller] = Unit) =>
           /\ mode = "plain"
           /\ ishards = before
           /\ SumLen(ishards, ShardsLen) = Cardinality(DOMAIN ref)
    /\ (mode = "plain" /\ pc[Caller] = "done" /\ cur.op # "from") => ret[Caller] = expect

\* C4 witness: on the plain map, which holds one key only, get(k) returned
\* Some(2), the conversion having been the call before it.
C4_Witness ==
    /\ mode = "plain" /\ Returned("get") /\ ret[Caller] = Some(2)
    /\ prev.op = "from" /\ Cardinality(StoredKeys) = 1

\* C5: remove(k) of a key no shard holds returns None, not an error, and leaves
\* every shard's table, hence len(), as it was; get_cloned(k) and
\* contains_key(k) of such a key return None and false.
C5_AbsentKey ==
    /\ (mode = "sync" /\ Returned("remove") /\ StoredBefore(cur.key) = None) =>
           /\ ret[Caller] = None
           /\ Tables = before
           /\ SumLen(Tables, ShardsLen) = SumLen(before, ShardsLen)
    /\ (Returned("get_cloned") /\ StoredBefore(cur.key) = None) => ret[Caller] = None
    /\ (Returned("contains_key") /\ StoredBefore(cur.key) = None) => ret[Caller] = Bool(FALSE)

\* C5 witness: remove(k) of an absent key returned None while the shard k is
\* routed to holds another key.
C5_Witness ==
    /\ mode = "sync" /\ Returned("remove") /\ ret[Caller] = None
    /\ \E k \in StoredKeys : k # cur.key /\ shard(k) = shard(cur.key)

\* C6: with a single caller, when clear() returns every shard is empty whatever
\* the map held, so a following is_empty() is true, len() is 0 and no key is
\* contained; a second clear() in a row returns too and leaves the same state.
C6_Clear ==
    /\ Returned("clear") => (ret[Caller] = Unit /\ AllEmpty /\ \A i \in DOMAIN mshards : ~mshards[i].locked)
    /\ (Returned("clear") /\ prev.op = "clear") => Tables = before
    /\ (Returned("is_empty") /\ prev.op = "clear") => ret[Caller] = Bool(TRUE)
    /\ (Returned("len") /\ prev.op = "clear") => ret[Caller] = Usize(0)
    /\ (Returned("contains_key") /\ prev.op = "clear") => ret[Caller] = Bool(FALSE)
    /\ (Returned("get_cloned") /\ prev.op = "clear") => ret[Caller] = None

\* C6 witness: clear() returned on a map that held keys in two shards.
C6_Witness ==
    /\ Returned("clear") /\ AllEmpty
    /\ \E i, j \in DOMAIN before : i # j /\ before[i] # EmptyMap /\ before[j] # EmptyMap

\* ------------------------------------------------------ concurrent callers
\* Thread t is in a method that works on the entry of one key.
SingleKey(t) == Method(t) \in {"get", "insert", "remove", "contains_key"}

\* While a thread holds the guard of a shard after its HashMap call, what the
\* call returned or wrote is what the table holds.
C7_Stable ==
    \A t \in Threads :
        pc[t] = "unlock" =>
            CASE Method(t) = "get" -> ret[t] = HashMap_get(Map(t), key[t])
              [] Method(t) = "contains_key" -> ret[t] = Bool(key[t] \in DOMAIN Map(t))
              [] Method(t) = "insert" -> HashMap_get(Map(t), key[t]) = Some(val[t])
              [] Method(t) = "remove" -> key[t] \notin DOMAIN Map(t)
              [] Method(t) = "len" -> ret[t] = NoRet /\ acc[t] = HashMap_len(Map(t))
              [] Method(t) = "is_empty" -> acc[t] = (IF Map(t) = EmptyMap THEN 1 ELSE 0)
              [] OTHER -> Map(t) = EmptyMap

\* What a shard holds under a key changes only in the step in which a thread
\* takes the shard's lock for an insert or remove of that key or for a clear.
C7_Visible ==
    \A i \in DOMAIN mshards, k \in Keys :
        HashMap_get(mshards[i].data, k) # HashMap_get(mshards'[i].data, k) =>
            \E t \in Threads :
                /\ pc[t] = "lock" /\ pc'[t] = "unlock" /\ idx[t] = i
                /\ \/ Method(t) = "clear"
                   \/ Method(t) \in {"insert", "remove"} /\ key[t] = k

\* C7: the calls of different threads on one Mutex<HashMap> shard are
\* linearizable: each takes effect in one step between its call and its return,
\* what it read or wrote stays true until it gives the lock back, so the lock
\* orders the calls; the entry insert(k, v) wrote is what every later get and
\* contains_key of k sees until a later insert or remove of k or a clear.
C7_Linearizable == []C7_Stable /\ [][C7_Visible]_vars

\* C7 witness: a thread holds the lock after insert(k, v) while another thread,
\* which called get(k) on the same shard, waits for it.
C7_Witness ==
    \E t, u \in Threads :
        /\ pc[t] = "unlock" /\ Method(t) = "insert"
        /\ pc[u] = "lock" /\ Method(u) = "get" /\ key[u] = key[t] /\ idx[u] = idx[t]

\* C8: a thread holds at most one shard lock: none outside a method and between
\* the shard calls of len, is_empty and clear, and exactly the lock of the
\* shard it works on inside a Mutex<HashMap> method; a mutex is locked exactly
\* when some thread holds its guard.
C8_OneLock ==
    /\ \A t \in Threads :
           /\ Cardinality(guards[t]) <= 1
           /\ pc[t] # "unlock" => guards[t] = {}
           /\ pc[t] = "unlock" => guards[t] = {idx[t]}
    /\ mode = "sync" =>
           \A i \in DOMAIN mshards : mshards[i].locked <=> \E t \in Threads : i \in guards[t]

\* C8 witness: clear() holds the lock of a later shard, having given back the
\* locks of the shards before it, while another thread holds another lock.
C8_Witness ==
    \E t, u \in Threads :
        /\ op[t] = "clear" /\ pc[t] = "unlock" /\ idx[t] > 1
        /\ pc[u] = "unlock" /\ idx[u] < idx[t]

\* A thread that waits for a lock waits for a thread that holds it and is
\* about to give it back.
NoDeadlock ==
    \A t \in Threads :
        (pc[t] = "lock" /\ ~CanLock(idx[t])) =>
            \E u \in Threads \ {t} : idx[t] \in guards[u] /\ pc[u] = "unlock"

\* C9: whatever methods the threads call, no thread waits for a lock that will
\* not be given back, and under fair lock scheduling every call returns.
C9_Progress ==
    /\ []NoDeadlock
    /\ \A t \in Threads : InCall(t) ~> ~InCall(t)

\* C9 witness: a thread in len() waits for a lock that a thread in clear() holds.
C9_Witness ==
    \E t, u \in Threads :
        /\ op[t] = "len" /\ pc[t] = "lock" /\ ~CanLock(idx[t])
        /\ op[u] = "clear" /\ idx[t] \in guards[u]

\* C10: two threads never hold the guard of the same shard; of two threads in
\* single-key methods whose keys are routed to different shards neither holds
\* the lock the other needs, so one that waits waits for a third thread.
C10_Independent ==
    \A t, u \in Threads :
        t # u =>
            /\ guards[t] \cap guards[u] = {}
            /\ (/\ SingleKey(t) /\ SingleKey(u) /\ InCall(t) /\ InCall(u)
                /\ shard(key[t]) # shard(key[u])) =>
                   /\ idx[t] \notin guards[u]
                   /\ (pc[t] = "lock" /\ \A w \in Threads \ {t, u} : idx[t] \notin guards[w])
                          => CanLock(idx[t])

\* C10 witness: get_cloned and contains_key of keys routed to different shards
\* are both inside their critical sections.
C10_Witness ==
    \E t, u \in Threads :
        /\ op[t] = "get_cloned" /\ pc[t] = "unlock"
        /\ op[u] = "contains_key" /\ pc[u] = "unlock"
        /\ shard(key[t]) # shard(key[u])

\* ----------------------------------------------- aggregates are not atomic
Least(S) == CHOOSE x \in S : \A y \in S : x <= y
Greatest(S) == CHOOSE x \in S : \A y \in S : x >= y

\* C11: clear(), len() and is_empty() of the map are not atomic across shards.
\* What does hold of a len() or is_empty() that overlaps a clear(): its result
\* lies between the least and the greatest total the map had during the call,
\* and it is the total when the total did not change; an is_empty() that
\* returns true saw the map empty at some time, one that returns false saw it
\* hold entries at some time.  The witness reaches what does not hold: an
\* is_empty() that found one shard cleared and a later one not yet, and a len()
\* whose result the total never was.
C11_NotAtomic ==
    \A t \in Threads :
        /\ (op[t] = "len" /\ pc[t] = "done") =>
               /\ ret[t].tag = "usize"
               /\ Least(seen[t]) <= ret[t].val /\ ret[t].val <= Greatest(seen[t])
               /\ Cardinality(seen[t]) = 1 => ret[t].val \in seen[t]
        /\ (op[t] = "is_empty" /\ pc[t] = "done") =>
               /\ ret[t] = Bool(TRUE) => 0 \in seen[t]
               /\ ret[t] = Bool(FALSE) => Greatest(seen[t]) > 0

\* C11 witness: both have happened: an is_empty() met a half-cleared map while
\* the clear() was in progress, and a len() returned a number that was the
\* total at no time during the call.
C11_Witness == torn = {"clear", "len"}

\* ------------------------------------------------------------ poisoning
\* The shards that are poisoned.
Poisoned == {i \in DOMAIN mshards : mshards[i].poisoned}

\* A poisoned shard stays poisoned as long as the map lives.
PoisonStays ==
    \A i \in Poisoned : mode' = "sync" => (i \in DOMAIN mshards' /\ mshards'[i].poisoned)

\* The step of a thread that asks for the lock of a poisoned shard ends its
\* call with a panic and changes no table.
PoisonAborts ==
    \A t \in Threads :
        (pc[t] = "lock" /\ idx[t] \in Poisoned /\ pc'[t] # pc[t]) =>
            /\ pc'[t] = "done" /\ ret'[t] = Panicked /\ guards'[t] = {}
            /\ \A i \in DOMAIN mshards : mshards'[i].data = mshards[i].data

\* No thread is under the guard of a poisoned shard, and a single-key call
\* panics only when the shard of its key is poisoned, whatever the others are.
PoisonLocal ==
    /\ \A t \in Threads : pc[t] = "unlock" => idx[t] \notin Poisoned
    /\ (/\ mode = "sync" /\ pc[Caller] = "done"
        /\ cur.op \in {"get_cloned", "insert", "remove", "contains_key"}
        /\ shard(cur.key) \notin Poisoned) => ret[Caller] # Panicked

\* C12: once the mutex of a shard is poisoned, every call that asks for its
\* lock (insert, remove, get_cloned, contains_key of a key routed to it, and
\* the is_empty, len and clear of the shard) panics instead of returning a
\* result or changing the shard; the shard stays poisoned; single-key calls
\* routed to the other shards return.
C12_Poisoned == [][PoisonStays /\ PoisonAborts]_vars /\ []PoisonLocal

\* C12 witness: a shard that holds an entry was poisoned when clear() was
\* called, so that clear() panicked and left the entry there, and the
\* get_cloned that followed, of a key routed to another shard, returned its
\* value.
C12_Witness ==
    /\ mode = "sync" /\ pc[Caller] = "done" /\ cur.op = "get_cloned" /\ ret[Caller] = Some(NumVals)
    /\ prev.op = "clear"
    /\ \E i \in Poisoned :
           /\ start[Caller][i].poisoned /\ mshards[i].data # EmptyMap
           /\ i # shard(cur.key)

\* C13: the conversion of a map with a poisoned shard fails as a whole: from
\* panics, no plain map exists afterwards, not even one made of the shards
\* before the poisoned one, and the map that was moved in is gone, so no call
\* reaches it; a plain map, when there is one, holds the table of every shard.
C13_ConversionFails ==
    /\ (pc[Caller] = "done" /\ cur.op = "from") =>
           IF \E i \in DOMAIN start[Caller] : start[Caller][i].poisoned
           THEN mode = "dropped" /\ ret[Caller] = Panicked /\ ishards = EmptyMap
           ELSE /\ mode = "plain" /\ ret[Caller] = Unit
                /\ ishards = [i \in DOMAIN start[Caller] |-> start[Caller][i].data]
    /\ mode \in {"sync", "dropped"} => ishards = EmptyMap
    /\ mode # "sync" => (mshards = EmptyMap /\ \A t \in Threads : ~InCall(t))

\* C13 witness: from panicked on a map whose first poisoned shard comes after
\* a healthy shard that holds an entry.
C13_Witness ==
    /\ pc[Caller] = "done" /\ cur.op = "from" /\ ret[Caller] = Panicked /\ mode = "dropped"
    /\ \E i \in DOMAIN start[Caller] :
           /\ start[Caller][i].poisoned
           /\ \A j \in 0..(i - 1) : ~start[Caller][j].poisoned
           /\ \E j \in 0..(i - 1) : start[Caller][j].data # EmptyMap

\* ---------------------------------------------------------- shard count
IsPowerOfTwo(n) == \E e \in 0..n : 2^e = n

\* n is the least power of two that is at least 4 * max(1, p).
IsDefaultFor(n, p) ==
    LET m == 4 * (IF p < 1 THEN 1 ELSE p)
    IN  IsPowerOfTwo(n) /\ n >= m /\ n < 2 * m

\* The map has as many shards as the cell says, at least one, a power of two,
\* indexed from 0; every other map of the process has as many.
CountFits ==
    /\ \E p \in 0..(MaxParallelism + 1) : IsDefaultFor(DEFAULT_SHARD_AMOUNT, p)
    /\ others \subseteq {DEFAULT_SHARD_AMOUNT}
    /\ mode # "dropped" =>
           /\ ShardsLen = DEFAULT_SHARD_AMOUNT
           /\ ShardsLen >= 1 /\ IsPowerOfTwo(ShardsLen)
           /\ DOMAIN Tables = 0..(ShardsLen - 1)

\* No step changes the cell or the shard count of a map that lives on.
CountStays ==
    /\ DEFAULT_SHARD_AMOUNT' = DEFAULT_SHARD_AMOUNT
    /\ mode' # "dropped" => ShardsLen' = ShardsLen

\* C14: the shard count of a map is fixed at construction: it is at least 1
\* and a power of two, the default next_power_of_two(4 * max(1, available
\* parallelism)) computed once per process and the same for every map; insert,
\* remove, clear and the queries add or remove no shard, and the plain map the
\* conversion makes has as many shards as its source.
C14_ShardCount == []CountFits /\ [][CountStays]_vars

\* C14 witness: a plain map of eight shards that holds two keys, in a process
\* that has constructed another map since.
C14_Witness ==
    /\ mode = "plain" /\ ShardsLen = 2 * default_shard_amount(ParallelismErr)
    /\ Cardinality(StoredKeys) = 2 /\ others # {}

\* ---------------------------------------------------------------- routing
\* The index of key k among n shards.
Route(k, n) == hash[k] % n

\* Every single-key call works on shard Route(k, n), an index of the map, and
\* the plain map answers from the shard of that index.
RoutingFits ==
    /\ \A t \in Threads :
           (InCall(t) /\ op[t] \in {"get_cloned", "insert", "remove", "contains_key"}) =>
               /\ idx[t] = Route(key[t], ShardsLen)
               /\ idx[t] \in 0..(ShardsLen - 1)
    /\ (mode = "plain" /\ Returned("get")) =>
           ret[Caller] = HashMap_get(ishards[Route(cur.key, ShardsLen)], cur.key)
    /\ (mode = "plain" /\ Returned("contains_key")) =>
           ret[Caller] = Bool(cur.key \in DOMAIN ishards[Route(cur.key, ShardsLen)])

\* The hash of a key never changes, and the step that computes the index of a
\* call changes nothing but the frame of the caller.
RoutingPure ==
    /\ hash' = hash
    /\ \A t \in Threads :
           (~InCall(t) /\ pc'[t] = "lock") => UNCHANGED <<mode, mshards, ishards, guards>>

\* C15: routing is a pure function of the key and the shard count: the index
\* is hash(k) mod shard count, inside [0, shard count), the same on every call,
\* on the read paths (get, get_cloned, contains_key) and the write paths
\* (insert, remove), on the MutableShardMap and on the plain map with the same
\* shard count; computing it changes no state.
C15_Routing == []RoutingFits /\ [][RoutingPure]_vars

\* C15 witness: the plain map's get(k) returned the value insert(k, v) stored
\* before the conversion, for a key whose hash is reduced modulo the count.
C15_Witness ==
    /\ mode = "plain" /\ Returned("get") /\ ret[Caller] = Some(NumVals)
    /\ hash[cur.key] >= ShardsLen
    /\ ref = [k \in {cur.key} |-> NumVals]

\* -------------------------------------------------------------- partition
\* Every key a shard holds is routed to that shard, so no other shard holds it
\* and the shards hold as many entries as there are keys stored.
Partition ==
    /\ \A i \in DOMAIN Tables : \A k \in DOMAIN Tables[i] :
           /\ i = Route(k, ShardsLen)
           /\ \A j \in DOMAIN Tables \ {i} : k \notin DOMAIN Tables[j]
    /\ Total(Tables) = Cardinality(StoredKeys)

\* The step that converts the map leaves every table at its index.
KeepsIndex ==
    (mode = "sync" /\ mode' = "plain") =>
        ishards' = [i \in DOMAIN mshards |-> mshards[i].data]

\* C16: in every reachable state of a MutableShardMap, and of the plain map
\* made from it, every stored key k is held by shard hash(k) mod shard count
\* and by no other shard: keys are unique in the whole map, and the conversion
\* moves no key to another index.
C16_Partition == []Partition /\ [][KeepsIndex]_vars

\* C16 witness: a plain map holding two keys in two shards, one of them under
\* a hash that is reduced modulo the shard count.
C16_Witness ==
    /\ mode = "plain" /\ Cardinality(StoredKeys) = 2
    /\ \E k1, k2 \in StoredKeys :
           /\ Route(k1, ShardsLen) # Route(k2, ShardsLen)
           /\ hash[k1] >= ShardsLen

\* ------------------------------------------------------------------ frames
\* What get_cloned(k) and contains_key(k) find in the given tables.
Lookup(tables, k) == HashMap_get(tables[Route(k, Cardinality(DOMAIN tables))], k)

\* C17: insert(k, v) and remove(k) change only the entry of k in shard
\* hash(k) mod shard count: from the call to the return every other shard holds
\* the table it held, every other key of the same shard keeps its entry, and so
\* get_cloned and contains_key of any k' # k find what they found before.
C17_Frame ==
    (mode = "sync" /\ cur.op \in {"insert", "remove"}) =>
        /\ \A i \in DOMAIN Tables \ {Route(cur.key, ShardsLen)} : Tables[i] = before[i]
        /\ \A i \in DOMAIN Tables : \A k \in Keys \ {cur.key} :
               HashMap_get(Tables[i], k) = HashMap_get(before[i], k)
        /\ \A k \in Keys \ {cur.key} : Lookup(Tables, k) = Lookup(before, k)

\* C17 witness: remove(k) took the entry of k out of a shard that holds
\* another key, whose entry is still there.
C17_Witness ==
    /\ mode = "sync" /\ Returned("remove") /\ ret[Caller] = Some(NumVals)
    /\ cur.key \notin StoredKeys
    /\ \E k \in StoredKeys : Route(k, ShardsLen) = Route(cur.key, ShardsLen)

\* The methods that only read.
Queries == {"is_empty", "len", "contains_key", "get"}

\* The step of a query under the guard, and the drop of any guard, change no
\* table; nothing changes the plain map.
ReadOnly ==
    /\ \A t \in Threads :
           (/\ mode = "sync"
            /\ \/ pc[t] = "lock" /\ pc'[t] # "lock" /\ Method(t) \in Queries
               \/ pc[t] = "unlock" /\ pc'[t] # "unlock") =>
               /\ mode' = "sync"
               /\ \A i \in DOMAIN mshards : mshards'[i].data = mshards[i].data
    /\ mode = "plain" => (mode' = "plain" /\ ishards' = ishards)

\* C18: the queries are read-only: is_empty, len, contains_key and get_cloned
\* of the MutableShardMap take and give back the lock of a shard and leave the
\* table of every shard as it is; is_empty, len, contains_key and get of the
\* plain map change nothing, and the plain map has no other method, so it
\* holds what the conversion gave it in every later state.
C18_ReadOnly == [][ReadOnly]_vars

\* C18 witness: get_cloned has returned a value and contains_key is under the
\* guard of another shard, having found its key; both keys are still stored.
C18_Witness ==
    /\ mode = "sync" /\ Cardinality(StoredKeys) = 2
    /\ \E t, u \in Threads :
           /\ op[t] = "get_cloned" /\ pc[t] = "done" /\ ret[t] = Some(NumVals)
           /\ op[u] = "contains_key" /\ pc[u] = "unlock" /\ ret[u] = Bool(TRUE)

\* ------------------------------------------------- emptiness, three ways
\* C19: when no call is in flight, is_empty() is true exactly when len() is 0
\* and exactly when contains_key(k) is false for every key, on the
\* MutableShardMap and on the plain map: what is_empty computes (every shard
\* empty), what len computes (the sum being 0) and what contains_key computes
\* (the routed lookup finding nothing, for every key) agree, and the three
\* calls return what they compute.
C19_Agree ==
    /\ (pc[Caller] \in {"idle", "done"} /\ mode \in {"sync", "plain"}) =>
           /\ AllEmpty <=> Total(Tables) = 0
           /\ AllEmpty <=> \A k \in Keys : Lookup(Tables, k) = None
    /\ Returned("is_empty") => ret[Caller] = Bool(AllEmpty)
    /\ Returned("len") => ret[Caller] = Usize(Total(Tables))
    /\ Returned("contains_key") => ret[Caller] = Bool(Lookup(Tables, cur.key) # None)

\* C19 witness: on a plain map that holds one key, in a shard other than the
\* first, contains_key of the other key returned false right after is_empty():
\* the map is not empty although this key is absent.
C19_Witness ==
    /\ mode = "plain" /\ Returned("contains_key") /\ ret[Caller] = Bool(FALSE)
    /\ prev.op = "is_empty"
    /\ \E k \in Keys : StoredKeys = {k} /\ Route(k, ShardsLen) > 0

\* ------------------------------------------------- clear() that panics
\* The first shard that was poisoned when the caller's call started.
FirstPoisoned ==
    CHOOSE i \in DOMAIN start[Caller] :
        /\ start[Caller][i].poisoned
        /\ \A j \in 0..(i - 1) : ~start[Caller][j].poisoned

\* C20: clear() is not all-or-nothing: it clears the shards in index order and
\* panics at the first poisoned shard i, and then every shard before i is
\* empty and every shard from i on holds what it held when clear() was called;
\* nothing puts back what the shards before i held.
C20_ClearAborts ==
    (mode = "sync" /\ Returned("clear")) =>
        IF \E i \in DOMAIN start[Caller] : start[Caller][i].poisoned
        THEN /\ ret[Caller] = Panicked
             /\ \A j \in 0..(FirstPoisoned - 1) : mshards[j].data = EmptyMap
             /\ \A j \in FirstPoisoned..(ShardsLen - 1) :
                    mshards[j].data = start[Caller][j].data
        ELSE ret[Caller] = Unit /\ AllEmpty

\* C20 witness: clear() panicked at a poisoned shard, having emptied a shard
\* before it that held an entry, and a shard after it still holds an entry.
C20_Witness ==
    /\ mode = "sync" /\ Returned("clear") /\ ret[Caller] = Panicked
    /\ \E j \in 0..(FirstPoisoned - 1) :
           start[Caller][j].data # EmptyMap /\ mshards[j].data = EmptyMap
    /\ \E j \in (FirstPoisoned + 1)..(ShardsLen - 1) : mshards[j].data # EmptyMap

====
